---- MODULE Spec2Model ----
(***************************************************************************)
(* Macro definitions provider (services/tools/macros.py) and the "extract  *)
(* to macro" refactoring service (services/tools/refactor.py) of the       *)
(* Galaxy language server.                                                  *)
(*                                                                         *)
(* Documents are sequences of one-character strings.  Offsets and LSP      *)
(* positions are 0-based as in the source; the element at offset k of a    *)
(* text s is s[k + 1].                                                      *)
(***************************************************************************)
EXTENDS Naturals, Integers, Sequences, FiniteSets, TLC

VARIABLES
    tool_source,    \* text of the tool document open in the workspace
    tool_version,   \* workspace version of the tool document
    files,          \* tool directory: file name -> Some(text), or None when missing
    phase,          \* "idle" | "refactor" | "definitions" | "navigated" | "applied"
    params,         \* CodeActionParams of the last code action request (its range)
    fail_at,        \* which call of the formatting service fails (0: none)
    response,       \* outcome of get_available_refactoring_actions
    macro_definitions, \* ToolMacroDefinitions of the last resolution pass, or None
    navigation,     \* outcome of go_to_import_definition / get_token_definition
    applied         \* documents after the client applied one returned Edit Set

vars == <<tool_source, tool_version, files, phase, params, fail_at, response,
          macro_definitions, navigation, applied>>

\* An optional value is None or Some(v); Get(Some(v)) = v.
None == <<>>
Some(v) == <<v>>
Get(option) == option[1]

(***************************************************************************)
(* Text                                                                    *)
(***************************************************************************)
NL == "\n"
SP == " "
LT == "<"
GT == ">"
SLASH == "/"
QUOTE == "\""
AT == "@"

Whitespace == {SP, NL, "\t", "\r"}

RECURSIVE Concat(_)
Concat(parts) ==
    IF parts = <<>> THEN <<>> ELSE Head(parts) \o Concat(Tail(parts))

\* the least and the greatest element of a set of numbers, 0 for the empty set
Least(set) == IF set = {} THEN 0 ELSE CHOOSE k \in set : \A m \in set : k <= m
Greatest(set) == IF set = {} THEN 0 ELSE CHOOSE k \in set : \A m \in set : m <= k

\* str.lstrip / str.rstrip / str.strip
lstrip(s) ==
    LET first == Least({k \in 1..Len(s) : s[k] \notin Whitespace})
    IN  IF first = 0 THEN <<>> ELSE SubSeq(s, first, Len(s))

rstrip(s) == SubSeq(s, 1, Greatest({k \in 1..Len(s) : s[k] \notin Whitespace}))

strip(s) == rstrip(lstrip(s))

\* index (1-based) of the first c in s at or after index i, 0 when there is none
FindChar(s, c, i) == Least({k \in i..Len(s) : s[k] = c})

\* str.replace(old, new) for a one-character old
RECURSIVE replace(_, _, _)
replace(s, old, new) ==
    LET i == FindChar(s, old, 1)
    IN  IF i = 0 THEN s
        ELSE SubSeq(s, 1, i - 1) \o new \o replace(SubSeq(s, i + 1, Len(s)), old, new)

FindText(s, pat, i) ==
    Least({k \in i..Len(s) :
              /\ k + Len(pat) - 1 <= Len(s)
              /\ \A c \in 1..Len(pat) : s[k + c - 1] = pat[c]})

\* number of c in the first n characters of s
CountChar(s, c, n) == Cardinality({k \in 1..n : s[k] = c})

\* offset of the first character of line number line (0-based)
RECURSIVE LineStart(_, _)
LineStart(s, line) ==
    IF line = 0 THEN 0
    ELSE LET prev == LineStart(s, line - 1)
             nl == FindChar(s, NL, prev + 1)
         IN  IF nl = 0 THEN Len(s) ELSE nl

\* text of line number line, without its line break
LineText(s, line) ==
    LET from == LineStart(s, line)
        nl == FindChar(s, NL, from + 1)
        to == IF nl = 0 THEN Len(s) ELSE nl - 1
    IN  SubSeq(s, from + 1, to)

Position(line, character) == [line |-> line, character |-> character]
Range(start, end) == [start |-> start, end |-> end]

\* Document.offset_at_position, clamped to the line as pygls does
OffsetAt(s, pos) ==
    LET text == LineText(s, pos.line)
        col == IF pos.character > Len(text) THEN Len(text) ELSE pos.character
    IN  LineStart(s, pos.line) + col

\* convert_document_offset_to_position
PositionAt(s, offset) ==
    LET line == CountChar(s, NL, offset)
    IN  Position(line, offset - LineStart(s, line))

(***************************************************************************)
(* Markup parser and document model (XmlDocumentParser, XmlDocument,       *)
(* lxml's etree.fromstring): elements with their offsets.                  *)
(***************************************************************************)
NoElement == 0

Front(seq) == SubSeq(seq, 1, Len(seq) - 1)

\* the tag name: the text of a tag up to its first whitespace
TagName(body) ==
    LET space == Least({k \in 1..Len(body) : body[k] \in Whitespace})
    IN  IF space = 0 THEN body ELSE SubSeq(body, 1, space - 1)

ValidTag(body) ==
    LET name == TagName(body)
    IN  /\ name # <<>>
        /\ \A k \in 1..Len(name) : name[k] \notin {LT, GT, SLASH, QUOTE, "=", "!", "?", "&"}
        /\ CountChar(body, QUOTE, Len(body)) % 2 = 0

\* XmlElement.get_attribute: the value of key="value" in an open tag, or None
Attribute(body, key) ==
    LET pat == <<SP>> \o key \o <<"=", QUOTE>>
        i == FindText(body, pat, 1)
        from == i + Len(pat)
        q == FindChar(body, QUOTE, from)
    IN  IF i = 0 \/ q = 0 THEN None ELSE Some(SubSeq(body, from, q - 1))

NewElement(body, start, open_end, parent, self_closed) ==
    [name |-> TagName(body),
     tag |-> body,
     start |-> start,
     end |-> IF self_closed THEN open_end ELSE 0,
     content_start |-> open_end,
     content_end |-> open_end,
     parent |-> parent,
     self_closed |-> self_closed]

ParseFailed == [ok |-> FALSE, elements |-> <<>>]

\* One pass over the text from index i; stack holds the indexes of the open
\* elements.  A text that is not exactly one well-formed element fails.
RECURSIVE ParseFrom(_, _, _, _)
ParseFrom(s, i, elements, stack) ==
    IF i > Len(s)
    THEN IF stack = <<>> /\ elements # <<>>
         THEN [ok |-> TRUE, elements |-> elements]
         ELSE ParseFailed
    ELSE IF s[i] # LT
    THEN LET nxt == FindChar(s, LT, i)
             upto == IF nxt = 0 THEN Len(s) ELSE nxt - 1
         IN  IF stack = <<>> /\ strip(SubSeq(s, i, upto)) # <<>>
             THEN ParseFailed
             ELSE ParseFrom(s, upto + 1, elements, stack)
    ELSE LET j == FindChar(s, GT, i + 1)
             body == SubSeq(s, i + 1, j - 1)
             top == IF stack = <<>> THEN NoElement ELSE stack[Len(stack)]
         IN  IF j = 0 \/ body = <<>> \/ FindChar(body, LT, 1) # 0
             THEN ParseFailed
             ELSE IF Head(body) = SLASH
             THEN IF top = NoElement \/ elements[top].name # rstrip(Tail(body))
                  THEN ParseFailed
                  ELSE ParseFrom(s, j + 1,
                                 [elements EXCEPT ![top].end = j,
                                                  ![top].content_end = i - 1],
                                 Front(stack))
             ELSE IF top = NoElement /\ elements # <<>>
             THEN ParseFailed
             ELSE IF body[Len(body)] = SLASH
             THEN IF ~ValidTag(Front(body))
                  THEN ParseFailed
                  ELSE ParseFrom(s, j + 1,
                                 Append(elements,
                                        NewElement(Front(body), i - 1, j, top, TRUE)),
                                 stack)
             ELSE IF ~ValidTag(body)
                  THEN ParseFailed
                  ELSE ParseFrom(s, j + 1,
                                 Append(elements,
                                        NewElement(body, i - 1, j, top, FALSE)),
                                 Append(stack, Len(elements) + 1))

\* XmlDocumentParser().parse(document)
XmlDocument(uri, source) ==
    LET parsed == ParseFrom(source, 1, <<>>, <<>>)
    IN  [uri |-> uri, source |-> source, elements |-> parsed.elements,
         root |-> IF parsed.ok THEN 1 ELSE NoElement]

\* indexes of the elements of doc that satisfy Test, in document order
RECURSIVE SelectIndexes(_, _, _)
SelectIndexes(elements, Test(_), k) ==
    IF k > Len(elements) THEN <<>>
    ELSE (IF Test(elements[k]) THEN <<k>> ELSE <<>>)
         \o SelectIndexes(elements, Test, k + 1)

find_all_elements_with_name(doc, name) ==
    LET Named(e) == e.name = name
    IN  SelectIndexes(doc.elements, Named, 1)

find_element(doc, name) ==
    LET found == find_all_elements_with_name(doc, name)
    IN  IF found = <<>> THEN NoElement ELSE found[1]

Children(doc, element) ==
    LET ChildOf(e) == e.parent = element
    IN  SelectIndexes(doc.elements, ChildOf, 1)

\* XmlElement.get_content: the text between the open and the close tag
get_content(doc, element) ==
    LET e == doc.elements[element]
    IN  SubSeq(doc.source, e.content_start + 1, e.content_end)

get_attribute(doc, element, key) == Attribute(doc.elements[element].tag, key)

get_element_name_range(doc, element) ==
    LET e == doc.elements[element]
    IN  Range(PositionAt(doc.source, e.start + 1),
              PositionAt(doc.source, e.start + 1 + Len(e.name)))

get_position_after(doc, element) ==
    PositionAt(doc.source, doc.elements[element].end)

get_position_before(doc, element) ==
    PositionAt(doc.source, doc.elements[element].start)

get_position_before_first_child(doc, element) ==
    LET children == Children(doc, element)
    IN  IF children = <<>>
        THEN PositionAt(doc.source, doc.elements[element].content_start)
        ELSE get_position_before(doc, children[1])

get_position_after_last_child(doc, element) ==
    LET children == Children(doc, element)
    IN  IF children = <<>>
        THEN PositionAt(doc.source, doc.elements[element].content_start)
        ELSE get_position_after(doc, children[Len(children)])

get_content_range_start(doc, name) ==
    PositionAt(doc.source, doc.elements[find_element(doc, name)].content_start)

get_line_indentation(doc, line) ==
    LET text == LineText(doc.source, line)
    IN  SubSeq(text, 1, Len(text) - Len(lstrip(text)))

get_text_in_range(doc, range) ==
    SubSeq(doc.source, OffsetAt(doc.source, range.start) + 1,
           OffsetAt(doc.source, range.end))

(***************************************************************************)
(* Tag and attribute names (services/tools/constants.py)                   *)
(***************************************************************************)
TOOL == <<"t", "o", "o", "l">>
MACROS == <<"m", "a", "c", "r", "o", "s">>
MACRO == <<"m", "a", "c", "r", "o">>
XML == <<"x", "m", "l">>
IMPORT == <<"i", "m", "p", "o", "r", "t">>
TOKEN == <<"t", "o", "k", "e", "n">>
DESCRIPTION == <<"d", "e", "s", "c", "r", "i", "p", "t", "i", "o", "n">>
XREF == <<"x", "r", "e", "f">>
EXPAND == <<"e", "x", "p", "a", "n", "d">>
NAME == <<"n", "a", "m", "e">>
INPUTS == <<"i", "n", "p", "u", "t", "s">>
PARAM == <<"p", "a", "r", "a", "m">>

DEFAULT_MACROS_FILENAME == <<"m", "a", "c", "r", "o", "s", ".", "x", "m", "l">>

(***************************************************************************)
(* The formatting service (GalaxyToolFormatService.format_content): one    *)
(* tag per line, indented by nesting depth; an element that holds only     *)
(* text stays on one line.  The result ends with a line break.             *)
(***************************************************************************)
TabSize == 4

Spaces(n) == [k \in 1..n |-> SP]

RECURSIVE PrettyFrom(_, _, _)
PrettyFrom(s, i, depth) ==
    IF i > Len(s) THEN <<>>
    ELSE IF s[i] \in Whitespace
    THEN LET first == Least({k \in i..Len(s) : s[k] \notin Whitespace})
         IN  IF first = 0 THEN <<>> ELSE PrettyFrom(s, first, depth)
    ELSE IF s[i] # LT
    THEN \* text between tags of mixed content: kept on a line of its own
         LET nxt == FindChar(s, LT, i)
             upto == IF nxt = 0 THEN Len(s) ELSE nxt - 1
         IN  Spaces(TabSize * depth) \o rstrip(SubSeq(s, i, upto)) \o <<NL>>
             \o PrettyFrom(s, upto + 1, depth)
    ELSE LET j == FindChar(s, GT, i)
             tag == SubSeq(s, i, j)
             nxt == FindChar(s, LT, j + 1)
             text == SubSeq(s, j + 1, nxt - 1)
             close == FindChar(s, GT, nxt)
         IN  IF s[i + 1] = SLASH
             THEN Spaces(TabSize * (depth - 1)) \o tag \o <<NL>>
                  \o PrettyFrom(s, j + 1, depth - 1)
             ELSE IF s[j - 1] = SLASH
             THEN Spaces(TabSize * depth) \o tag \o <<NL>>
                  \o PrettyFrom(s, j + 1, depth)
             ELSE IF nxt # 0 /\ s[nxt + 1] = SLASH /\ strip(text) # <<>>
             THEN Spaces(TabSize * depth) \o tag \o text \o SubSeq(s, nxt, close)
                  \o <<NL>> \o PrettyFrom(s, close + 1, depth)
             ELSE Spaces(TabSize * depth) \o tag \o <<NL>>
                  \o PrettyFrom(s, j + 1, depth + 1)

format_content(content) == PrettyFrom(content, 1, 0)

(***************************************************************************)
(* Python dict: key/value pairs in insertion order; setting a key that is  *)
(* present replaces its value in place.                                     *)
(***************************************************************************)
DictIndex(d, key) ==
    LET found == {k \in 1..Len(d) : d[k].key = key}
    IN  IF found = {} THEN 0 ELSE CHOOSE k \in found : TRUE

DictHas(d, key) == DictIndex(d, key) # 0

DictGet(d, key) ==
    IF DictHas(d, key) THEN Some(d[DictIndex(d, key)].value) ELSE None

DictSet(d, key, value) ==
    IF DictHas(d, key)
    THEN [d EXCEPT ![DictIndex(d, key)].value = value]
    ELSE Append(d, [key |-> key, value |-> value])

RECURSIVE DictUpdate(_, _)
DictUpdate(d, other) ==
    IF other = <<>> THEN d
    ELSE DictUpdate(DictSet(d, Head(other).key, Head(other).value), Tail(other))

DictKeys(d) == [k \in 1..Len(d) |-> d[k].key]
DictValues(d) == [k \in 1..Len(d) |-> d[k].value]

\* pydantic's validation of a Dict field: dict(v)
dict_validator(v) == DictUpdate(<<>>, v)

(***************************************************************************)
(* services/tools/macros.py                                                *)
(***************************************************************************)
ToolDirectory == "/tools"
ToolFileName == <<"t">>

\* Path.as_uri of a file of the tool directory
as_uri(file_name) == [directory |-> ToolDirectory, name |-> file_name]

ToolUri == as_uri(ToolFileName)

Location(uri, range) == [uri |-> uri, range |-> range]

TokenDefinition(name, location) == [name |-> name, location |-> location]

ImportedMacrosFile(file_name, file_uri, document, tokens) ==
    [file_name |-> file_name, file_uri |-> file_uri, document |-> document,
     tokens |-> dict_validator(tokens)]

ToolMacroDefinitions(tool_document, imported_macros, tokens) ==
    [tool_document |-> tool_document, imported_macros |-> imported_macros,
     tokens |-> tokens]

\* MacroDefinitionsProvider._get_token_definitions
RECURSIVE TokenDefinitionsFrom(_, _, _)
TokenDefinitionsFrom(macros_xml, token_elements, rval) ==
    IF token_elements = <<>> THEN rval
    ELSE LET element == Head(token_elements)
             name == replace(Get(get_attribute(macros_xml, element, NAME)), AT, <<>>)
             token_def ==
                 TokenDefinition(name,
                     Location(macros_xml.uri,
                              get_element_name_range(macros_xml, element)))
         IN  TokenDefinitionsFrom(macros_xml, Tail(token_elements),
                                  DictSet(rval, token_def.name, token_def))

get_token_definitions(macros_xml) ==
    TokenDefinitionsFrom(macros_xml,
                         find_all_elements_with_name(macros_xml, TOKEN), <<>>)

\* Path.exists for tool_directory / name
path_exists(fs, name) == name \in DOMAIN fs /\ fs[name] # None

\* MacroDefinitionsProvider._load_macros_document
load_macros_document(fs, file_uri) == XmlDocument(file_uri, Get(fs[file_uri.name]))

\* MacroDefinitionsProvider._get_imported_macro_files_from_tool
RECURSIVE ImportedMacroFilesFrom(_, _, _, _)
ImportedMacroFilesFrom(fs, tool_xml, import_elements, macro_files) ==
    IF import_elements = <<>> THEN macro_files
    ELSE LET imp == Head(import_elements)
             name == get_content(tool_xml, imp)
             exists == path_exists(fs, name)
             file_uri == IF exists THEN Some(as_uri(name)) ELSE None
             macros_document ==
                 IF exists THEN Some(load_macros_document(fs, Get(file_uri)))
                 ELSE None
             tokens ==
                 IF exists THEN get_token_definitions(Get(macros_document))
                 ELSE <<>>
         IN  ImportedMacroFilesFrom(fs, tool_xml, Tail(import_elements),
                 IF name # <<>>
                 THEN DictSet(macro_files, name,
                          ImportedMacrosFile(name, file_uri, macros_document, tokens))
                 ELSE macro_files)

\* a variant that keeps one entry per import declaration, repeated names included
imported_macro_files_per_declaration(fs, tool_xml) ==
    LET import_elements == find_all_elements_with_name(tool_xml, IMPORT)
        entry(imp) ==
            LET name == get_content(tool_xml, imp)
            IN  [key |-> name,
                 value |-> IF path_exists(fs, name)
                           THEN ImportedMacrosFile(name, Some(as_uri(name)),
                                    Some(load_macros_document(fs, as_uri(name))),
                                    get_token_definitions(
                                        load_macros_document(fs, as_uri(name))))
                           ELSE ImportedMacrosFile(name, None, None, <<>>)]
        entries == [k \in 1..Len(import_elements) |-> entry(import_elements[k])]
    IN  SelectSeq(entries, LAMBDA e : e.key # <<>>)

\* a variant that leaves the imports of missing files out of the table
existing_imported_macro_files(fs, tool_xml) ==
    SelectSeq(ImportedMacroFilesFrom(fs, tool_xml,
                  find_all_elements_with_name(tool_xml, IMPORT), <<>>),
              LAMBDA e : e.value.document # None)

get_imported_macro_files_from_tool(fs, tool_xml) ==
    ImportedMacroFilesFrom(fs, tool_xml,
                           find_all_elements_with_name(tool_xml, IMPORT), <<>>)

\* a variant in which the first file to define a token keeps it
RECURSIVE UpdateTokensFirstWins(_, _)
UpdateTokensFirstWins(tokens, imported_files) ==
    IF imported_files = <<>> THEN tokens
    ELSE UpdateTokensFirstWins(
             tokens \o SelectSeq(Head(imported_files).tokens,
                                 LAMBDA e : ~DictHas(tokens, e.key)),
             Tail(imported_files))

\* the loop of load_macro_definitions: tokens.update(file.tokens) per file
RECURSIVE UpdateTokens(_, _)
UpdateTokens(tokens, imported_files) ==
    IF imported_files = <<>> THEN tokens
    ELSE UpdateTokens(DictUpdate(tokens, Head(imported_files).tokens),
                      Tail(imported_files))

\* MacroDefinitionsProvider.load_macro_definitions
load_macro_definitions(fs, tool_xml) ==
    LET tokens == get_token_definitions(tool_xml)
        imported_macro_files == get_imported_macro_files_from_tool(fs, tool_xml)
    IN  ToolMacroDefinitions(tool_xml, imported_macro_files,
            UpdateTokens(tokens, DictValues(imported_macro_files)))

\* ToolMacroDefinitions.go_to_import_definition
go_to_import_definition(definitions, file_name) ==
    LET imported_macros == DictGet(definitions.imported_macros, file_name)
    IN  IF /\ imported_macros # None
           /\ Get(imported_macros).document # None
           /\ Get(Get(imported_macros).document).root # NoElement
        THEN LET document == Get(Get(imported_macros).document)
             IN  Some(Location(Get(Get(imported_macros).file_uri),
                               get_element_name_range(document, document.root)))
        ELSE None

\* ToolMacroDefinitions.get_token_definition
get_token_definition(definitions, token) == DictGet(definitions.tokens, token)

(***************************************************************************)
(* services/tools/refactor.py                                              *)
(*                                                                         *)
(* An operation that can raise returns Returned(value, calls) or           *)
(* Raised(error, calls); calls counts the calls of the formatting service  *)
(* made so far, and the call number fails_at of one request raises.        *)
(***************************************************************************)
NoError == "none"
FormatError == "FormatError"
AttributeError == "AttributeError"

Returned(value, calls) == [raised |-> NoError, value |-> value, calls |-> calls]
Raised(error, calls) == [raised |-> error, value |-> <<>>, calls |-> calls]

\* self.format_service.format_content(xml_text)
call_format_content(xml_text, calls, fails_at) ==
    IF calls + 1 = fails_at
    THEN Raised(FormatError, calls + 1)
    ELSE Returned(format_content(xml_text), calls + 1)

MacroData(name, content) == [name |-> name, content |-> content]
TextEdit(range, new_text) == [range |-> range, new_text |-> new_text]

ExtractLocalTitle == "Extract to local macro"
ExtractToFileTitle == "Extract to macro in "
ExtractNewFileTitle == "Extract to macro, create and import "
RefactorExtract == "refactor.extract"

CodeAction(title, file_name, changes, document_changes) ==
    [title |-> [text |-> title, file_name |-> file_name],
     kind |-> RefactorExtract,
     edit |-> [changes |-> changes, document_changes |-> document_changes]]

\* the text <tag key="value">
OpenTag(tag, key, value) ==
    Concat(<< <<LT>>, tag, <<SP>>, key, <<"=", QUOTE>>, value, <<QUOTE, GT>> >>)

CloseTag(tag) == Concat(<< <<LT, SLASH>>, tag, <<GT>> >>)

\* f'<xml name="{macro.name}">\n{macro.content}\n</xml>'
MacroXml(macro) ==
    Concat(<< OpenTag(XML, NAME, macro.name), <<NL>>, macro.content, <<NL>>,
              CloseTag(XML) >>)

\* f'<macros>\n<xml name="{macro.name}">\n{macro.content}\n</xml>\n</macros>'
MacrosSectionXml(macro) ==
    Concat(<< <<LT>>, MACROS, <<GT, NL>>, MacroXml(macro), <<NL>>, CloseTag(MACROS) >>)

\* f"<import>{macros_file_name}</import>"
ImportXml(macros_file_name) ==
    Concat(<< <<LT>>, IMPORT, <<GT>>, macros_file_name, CloseTag(IMPORT) >>)

\* f'{indentation}<expand macro="{macro.name}"/>'
ExpandXml(indentation, macro) ==
    Concat(<< indentation, <<LT>>, EXPAND, <<SP>>, MACRO, <<"=", QUOTE>>, macro.name,
              <<QUOTE, SLASH, GT>> >>)

\* RefactorMacrosService._get_range_from_line_start
get_range_from_line_start(range) ==
    Range(Position(range.start.line, 0), range.end)

\* RefactorMacrosService._apply_indent
apply_indent(text, indent) == indent \o replace(text, NL, <<NL>> \o indent)

\* the rest of an operation after a step that can raise
Bind(result, Continue(_, _)) ==
    IF result.raised # NoError THEN result
    ELSE Continue(result.value, result.calls)

\* RefactorMacrosService._adapt_format
adapt_format(xml_document, insert_range, xml_text, insert_in_new_line, calls, fails_at) ==
    Bind(call_format_content(xml_text, calls, fails_at),
         LAMBDA formatted, n :
             Returned(
                 (IF insert_in_new_line THEN <<NL>> ELSE <<>>)
                     \o apply_indent(
                            rstrip(formatted),
                            get_line_indentation(
                                xml_document,
                                IF insert_in_new_line THEN insert_range.start.line
                                ELSE insert_range.start.line - 1)),
                 n))

\* RefactorMacrosService._edit_replace_range_with_macro_expand
edit_replace_range_with_macro_expand(tool, macro, range) ==
    TextEdit(get_range_from_line_start(range),
             ExpandXml(get_line_indentation(tool, range.start.line), macro))

\* RefactorMacrosService._find_macros_insert_position
find_macros_insert_position(tool) ==
    IF find_element(tool, XREF) # NoElement
    THEN get_position_after(tool, find_element(tool, XREF))
    ELSE IF find_element(tool, DESCRIPTION) # NoElement
    THEN get_position_after(tool, find_element(tool, DESCRIPTION))
    ELSE get_content_range_start(tool, TOOL)

\* the tail shared by the _edit_* methods: format at the insertion point
InsertEdit(xml_document, insert_position, macro_xml, calls, fails_at) ==
    Bind(adapt_format(xml_document, Range(insert_position, insert_position),
                      macro_xml, TRUE, calls, fails_at),
         LAMBDA final_macro_xml, n :
             Returned(TextEdit(Range(insert_position, insert_position),
                               final_macro_xml),
                      n))

\* a variant that declares the import after the last child of the container
edit_create_import_after_last_child(tool, macros_file_name, calls, fails_at) ==
    IF find_element(tool, MACROS) # NoElement
    THEN InsertEdit(tool,
                    get_position_after_last_child(tool, find_element(tool, MACROS)),
                    ImportXml(macros_file_name), calls, fails_at)
    ELSE InsertEdit(tool, find_macros_insert_position(tool),
                    Concat(<< <<LT>>, MACROS, <<GT, NL>>,
                              ImportXml(macros_file_name), <<NL>>,
                              CloseTag(MACROS) >>),
                    calls, fails_at)

\* RefactorMacrosService._edit_create_import_macros_section
edit_create_import_macros_section(tool, macros_file_name, calls, fails_at) ==
    IF find_element(tool, MACROS) # NoElement
    THEN InsertEdit(tool,
                    get_position_before_first_child(tool, find_element(tool, MACROS)),
                    ImportXml(macros_file_name), calls, fails_at)
    ELSE InsertEdit(tool, find_macros_insert_position(tool),
                    Concat(<< <<LT>>, MACROS, <<GT, NL>>,
                              ImportXml(macros_file_name), <<NL>>,
                              CloseTag(MACROS) >>),
                    calls, fails_at)

\* RefactorMacrosService._edit_create_with_macros_section
edit_create_with_macros_section(tool, macro, calls, fails_at) ==
    InsertEdit(tool, find_macros_insert_position(tool), MacrosSectionXml(macro),
               calls, fails_at)

\* RefactorMacrosService._edit_add_macro_to_macros_section
edit_add_macro_to_macros_section(tool, macro, calls, fails_at) ==
    InsertEdit(tool, get_position_after_last_child(tool, find_element(tool, MACROS)),
               MacroXml(macro), calls, fails_at)

\* RefactorMacrosService._calculate_local_changes_for_macro
calculate_local_changes_for_macro(tool, macro, request, calls, fails_at) ==
    Bind(IF find_element(tool, MACROS) = NoElement
         THEN edit_create_with_macros_section(tool, macro, calls, fails_at)
         ELSE edit_add_macro_to_macros_section(tool, macro, calls, fails_at),
         LAMBDA first, n :
             Returned(DictSet(<<>>, request.text_document.uri,
                              << first,
                                 edit_replace_range_with_macro_expand(
                                     tool, macro, request.range) >>),
                      n))

\* RefactorMacrosService._calculate_external_changes_for_macro
calculate_external_changes_for_macro(tool, macro_file_definition, macro, request, calls, fails_at) ==
    IF macro_file_definition.document = None
    THEN Raised(AttributeError, calls)   \* macros_xml_doc.root with macros_xml_doc None
    ELSE Bind(InsertEdit(Get(macro_file_definition.document),
                         get_position_after_last_child(
                             Get(macro_file_definition.document),
                             Get(macro_file_definition.document).root),
                         MacroXml(macro), calls, fails_at),
              LAMBDA external_edit, n :
                  Returned(
                      DictSet(DictSet(<<>>, request.text_document.uri,
                                      << edit_replace_range_with_macro_expand(
                                             tool, macro, request.range) >>),
                              Get(macro_file_definition.file_uri),
                              << external_edit >>),
                      n))

CreateFile(uri) == [kind |-> "create", uri |-> uri]

TextDocumentEdit(uri, version, edits) ==
    [kind |-> "edit", text_document |-> [uri |-> uri, version |-> version],
     edits |-> edits]

\* RefactorMacrosService._calculate_external_changes_for_macro_in_new_file
calculate_external_changes_for_macro_in_new_file(tool, new_file_name, macro, request, version, calls, fails_at) ==
    Bind(call_format_content(MacrosSectionXml(macro), calls, fails_at),
         LAMBDA final_xml_content, n :
             Bind(edit_create_import_macros_section(tool, DEFAULT_MACROS_FILENAME,
                                                    n, fails_at),
                  LAMBDA import_edit, m :
                      Returned(
                          << CreateFile(as_uri(new_file_name)),
                             TextDocumentEdit(as_uri(new_file_name), 0,
                                 << TextEdit(Range(Position(0, 0), Position(0, 0)),
                                             final_xml_content) >>),
                             TextDocumentEdit(request.text_document.uri, version,
                                 << import_edit,
                                    edit_replace_range_with_macro_expand(
                                        tool, macro, request.range) >>) >>,
                          m)))

\* RefactorMacrosService.create_extract_to_local_macro_actions
create_extract_to_local_macro_actions(tool, macro, request, calls, fails_at) ==
    Bind(calculate_local_changes_for_macro(tool, macro, request, calls, fails_at),
         LAMBDA changes, n :
             Returned(<< CodeAction(ExtractLocalTitle, <<>>, changes, <<>>) >>, n))

\* the loop of create_extract_to_macros_file_actions over imported_macros.items()
RECURSIVE ExtractToFileActionsFrom(_, _, _, _, _, _, _)
ExtractToFileActionsFrom(tool, items, macro, request, code_actions, calls, fails_at) ==
    IF items = <<>> THEN Returned(code_actions, calls)
    ELSE Bind(calculate_external_changes_for_macro(
                  tool, Head(items).value, macro, request, calls, fails_at),
              LAMBDA changes, n :
                  ExtractToFileActionsFrom(tool, Tail(items), macro, request,
                      Append(code_actions,
                             CodeAction(ExtractToFileTitle, Head(items).key,
                                        changes, <<>>)),
                      n, fails_at))

\* RefactorMacrosService.create_extract_to_macros_file_actions
create_extract_to_macros_file_actions(tool, definitions, macro, request, version, calls, fails_at) ==
    IF definitions.imported_macros = <<>>
    THEN Bind(calculate_external_changes_for_macro_in_new_file(
                  tool, DEFAULT_MACROS_FILENAME, macro, request, version,
                  calls, fails_at),
              LAMBDA document_changes, n :
                  Returned(<< CodeAction(ExtractNewFileTitle, DEFAULT_MACROS_FILENAME,
                                         <<>>, document_changes) >>,
                           n))
    ELSE ExtractToFileActionsFrom(tool, definitions.imported_macros, macro, request,
                                  <<>>, calls, fails_at)

ReservedTags == {TOOL, MACROS, MACRO, XML}

\* etree.fromstring(stripped_xml).tag, or None when it raises
FragmentTag(parsed) == IF parsed.ok THEN Some(parsed.elements[1].name) ELSE None

\* a variant that accepts every root tag
AnyNodeTag(tag) == tag

\* RefactoringService._get_valid_node_tag: any failure of etree.fromstring is caught
ValidNodeTag(tag) ==
    IF tag = None THEN None
    ELSE IF Get(tag) \in ReservedTags THEN None
    ELSE tag

get_valid_node_tag(stripped_xml) ==
    ValidNodeTag(FragmentTag(ParseFrom(stripped_xml, 1, <<>>, <<>>)))

MinElementLength == 5

\* RefactoringService.get_valid_full_element_tag
LooksLikeElement(stripped_xml) ==
    ~(\/ Len(stripped_xml) < MinElementLength
      \/ (stripped_xml[1] # LT \/ stripped_xml[Len(stripped_xml)] # GT))

ValidFullElementTag(stripped_xml) ==
    IF ~LooksLikeElement(stripped_xml) THEN None
    ELSE get_valid_node_tag(stripped_xml)

get_valid_full_element_tag(xml_text) == ValidFullElementTag(strip(xml_text))

\* What one code action request leaves behind: the error it raised (if any), the
\* actions it returned, and what it computed on the way.
Response(raised, code_actions, macro, definitions, format_calls) ==
    [raised |-> raised, code_actions |-> code_actions, macro |-> macro,
     definitions |-> definitions, format_calls |-> format_calls]

NoResponse == Response(NoError, <<>>, None, None, 0)

ResponseOf(outcome, macro, definitions) ==
    Response(outcome.raised, outcome.value, Some(macro), Some(definitions),
             outcome.calls)

\* lines 247-251 of get_available_refactoring_actions: the external actions,
\* then the local ones
ExtendCodeActions(tool, definitions, macro, request, version, fails_at) ==
    ResponseOf(
        Bind(create_extract_to_macros_file_actions(tool, definitions, macro, request,
                                                   version, 0, fails_at),
             LAMBDA external, n :
                 Bind(create_extract_to_local_macro_actions(tool, macro, request,
                                                            n, fails_at),
                      LAMBDA local, m : Returned(external \o local, m))),
        macro, definitions)

ActionsForTag(fs, xml_document, target_element_tag, content, request, version, fails_at) ==
    IF target_element_tag = None
    THEN Response(NoError, <<>>, None, None, 0)
    ELSE ExtendCodeActions(xml_document, load_macro_definitions(fs, xml_document),
                           MacroData(Get(target_element_tag), content),
                           request, version, fails_at)

ActionsForText(fs, xml_document, text_in_range, request, version, fails_at) ==
    ActionsForTag(fs, xml_document, get_valid_full_element_tag(text_in_range),
                  strip(text_in_range), request, version, fails_at)

\* RefactoringService.get_available_refactoring_actions
get_available_refactoring_actions(fs, xml_document, request, version, fails_at) ==
    ActionsForText(fs, xml_document, get_text_in_range(xml_document, request.range),
                   request, version, fails_at)

(***************************************************************************)
(* The client's side of an Edit Set: text edits of one document are all    *)
(* positioned against the original text and must not overlap.              *)
(***************************************************************************)
EditStart(text, edit) == OffsetAt(text, edit.range.start)
EditEnd(text, edit) == OffsetAt(text, edit.range.end)

NoOverlap(text, edits) ==
    \A i, j \in 1..Len(edits) :
        i < j => ~(/\ EditStart(text, edits[i]) < EditEnd(text, edits[j])
                   /\ EditStart(text, edits[j]) < EditEnd(text, edits[i]))

\* the edit applied first: the one that starts last (the later of two at one place)
LastEdit(text, edits) ==
    CHOOSE i \in 1..Len(edits) :
        \A j \in 1..Len(edits) :
            \/ EditStart(text, edits[j]) < EditStart(text, edits[i])
            \/ EditStart(text, edits[j]) = EditStart(text, edits[i])
               /\ EditEnd(text, edits[j]) < EditEnd(text, edits[i])
            \/ EditStart(text, edits[j]) = EditStart(text, edits[i])
               /\ EditEnd(text, edits[j]) = EditEnd(text, edits[i])
               /\ j <= i

Without(seq, i) == SubSeq(seq, 1, i - 1) \o SubSeq(seq, i + 1, Len(seq))

RECURSIVE ApplySorted(_, _, _)
ApplySorted(original, text, edits) ==
    IF edits = <<>> THEN text
    ELSE LET i == LastEdit(original, edits)
             from == EditStart(original, edits[i])
             to == EditEnd(original, edits[i])
         IN  ApplySorted(original,
                         SubSeq(text, 1, from) \o edits[i].new_text
                             \o SubSeq(text, to + 1, Len(text)),
                         Without(edits, i))

ApplyTextEdits(text, edits) == ApplySorted(text, text, edits)

\* the (uri, edits) pairs of a workspace edit, a created file counting as empty
EditedDocuments(edit) ==
    IF edit.document_changes = <<>>
    THEN [k \in 1..Len(edit.changes) |->
             [uri |-> edit.changes[k].key, edits |-> edit.changes[k].value,
              created |-> FALSE]]
    ELSE LET IsEdit(op) == op.kind = "edit"
             ops == SelectSeq(edit.document_changes, IsEdit)
         IN  [k \in 1..Len(ops) |->
                 [uri |-> ops[k].text_document.uri, edits |-> ops[k].edits,
                  created |-> \E c \in 1..Len(edit.document_changes) :
                                 /\ edit.document_changes[c].kind = "create"
                                 /\ edit.document_changes[c].uri
                                        = ops[k].text_document.uri]]

\* the text of a document of the workspace before the edit
OriginalText(source, fs, target) ==
    IF target.created THEN <<>>
    ELSE IF target.uri = ToolUri THEN source
    ELSE Get(fs[target.uri.name])

ApplyWorkspaceEdit(source, fs, edit) ==
    LET targets == EditedDocuments(edit)
    IN  [k \in 1..Len(targets) |->
            [uri |-> targets[k].uri,
             before |-> OriginalText(source, fs, targets[k]),
             after |-> ApplyTextEdits(OriginalText(source, fs, targets[k]),
                                      targets[k].edits)]]

Applicable(source, fs, edit) ==
    LET targets == EditedDocuments(edit)
    IN  \A k \in 1..Len(targets) :
            NoOverlap(OriginalText(source, fs, targets[k]), targets[k].edits)

(***************************************************************************)
(* Workspaces: tool documents and the macro files of the tool directory    *)
(***************************************************************************)
OpenEl(tag) == Concat(<< <<LT>>, tag, <<GT>> >>)
El(tag, content) == Concat(<< OpenEl(tag), content, CloseTag(tag) >>)
EmptyEl(tag) == Concat(<< <<LT>>, tag, <<SLASH, GT>> >>)
AttrEl(tag, key, value, content) ==
    Concat(<< OpenTag(tag, key, value), content, CloseTag(tag) >>)
EmptyAttrEl(tag, key, value) ==
    Concat(<< <<LT>>, tag, <<SP>>, key, <<"=", QUOTE>>, value, <<QUOTE, SLASH, GT>> >>)
Ind(n, text) == Spaces(n) \o text

RECURSIVE JoinLines(_)
JoinLines(lines) ==
    IF Len(lines) = 1 THEN lines[1]
    ELSE Head(lines) \o <<NL>> \o JoinLines(Tail(lines))

FileA == <<"a">>
FileB == <<"b">>
TokenX == <<"X">>
TokenY == <<"Y">>
SigilX == <<"@", "X", "@">>
SigilY == <<"@", "Y", "@">>

\* no macros container, a description (the scenario of spec section 8)
ToolWithDescription ==
    JoinLines(<< OpenEl(TOOL),
                 Ind(2, El(DESCRIPTION, <<"d">>)),
                 Ind(2, OpenEl(INPUTS)),
                 Ind(4, EmptyAttrEl(PARAM, NAME, <<"x">>)),
                 Ind(2, CloseTag(INPUTS)),
                 CloseTag(TOOL) >>)

\* no macros container, a description and a cross reference, inputs on one line
ToolWithXref ==
    JoinLines(<< OpenEl(TOOL),
                 Ind(2, El(DESCRIPTION, <<"d">>)),
                 Ind(2, El(XREF, <<"r">>)),
                 Ind(2, El(INPUTS, EmptyAttrEl(PARAM, NAME, <<"x">>))),
                 CloseTag(TOOL) >>)

\* neither, the whole document on one line
ToolOnOneLine == El(TOOL, El(INPUTS, EmptyAttrEl(PARAM, NAME, <<"x">>)))

\* a macros container that imports nothing
ToolWithToken ==
    JoinLines(<< OpenEl(TOOL),
                 Ind(2, OpenEl(MACROS)),
                 Ind(4, AttrEl(TOKEN, NAME, SigilX, <<"1">>)),
                 Ind(2, CloseTag(MACROS)),
                 Ind(2, EmptyEl(INPUTS)),
                 CloseTag(TOOL) >>)

\* an import declaration without content
ToolWithEmptyImport ==
    JoinLines(<< OpenEl(TOOL),
                 Ind(2, OpenEl(MACROS)),
                 Ind(4, El(IMPORT, <<>>)),
                 Ind(2, CloseTag(MACROS)),
                 Ind(2, EmptyEl(INPUTS)),
                 CloseTag(TOOL) >>)

\* two imports and a token of its own
ToolWithImports ==
    JoinLines(<< OpenEl(TOOL),
                 Ind(2, OpenEl(MACROS)),
                 Ind(4, El(IMPORT, FileA)),
                 Ind(4, El(IMPORT, FileB)),
                 Ind(4, AttrEl(TOKEN, NAME, SigilX, <<"1">>)),
                 Ind(2, CloseTag(MACROS)),
                 Ind(2, EmptyAttrEl(PARAM, NAME, <<"x">>)),
                 CloseTag(TOOL) >>)

\* the same file imported twice, around another import
ToolWithRepeatedImport ==
    JoinLines(<< OpenEl(TOOL),
                 Ind(2, OpenEl(MACROS)),
                 Ind(4, El(IMPORT, FileA)),
                 Ind(4, El(IMPORT, FileB)),
                 Ind(4, El(IMPORT, FileA)),
                 Ind(2, CloseTag(MACROS)),
                 Ind(2, EmptyAttrEl(PARAM, NAME, <<"x">>)),
                 CloseTag(TOOL) >>)

ToolDocuments ==
    {ToolWithDescription, ToolWithXref, ToolOnOneLine, ToolWithToken,
     ToolWithEmptyImport, ToolWithImports, ToolWithRepeatedImport}

MacrosWithTokens ==
    JoinLines(<< OpenEl(MACROS),
                 Ind(2, AttrEl(TOKEN, NAME, SigilX, <<"a">>)),
                 Ind(2, AttrEl(TOKEN, NAME, SigilY, <<"a">>)),
                 CloseTag(MACROS) >>)

MacrosOnOneLine == El(MACROS, AttrEl(TOKEN, NAME, TokenX, <<"b">>))

MacrosWithoutTokens == JoinLines(<< OpenEl(MACROS), CloseTag(MACROS) >>)

FileNames == {FileA, FileB}

FileSystems ==
    {[name \in FileNames |-> IF name = FileA THEN a ELSE b] :
        a \in {None, Some(MacrosWithTokens), Some(MacrosWithoutTokens)},
        b \in {None, Some(MacrosOnOneLine)}}

\* a tool directory holds files only for a tool that imports some
Workspaces ==
    {w \in [source : ToolDocuments, files : FileSystems] :
        LET doc == XmlDocument(ToolUri, w.source)
            imports == find_all_elements_with_name(doc, IMPORT)
        IN  (\A k \in 1..Len(imports) : get_content(doc, imports[k]) \notin FileNames)
                => w.files = [name \in FileNames |-> None]}

MaxVersion == 2
MaxFormatCalls == 3

(***************************************************************************)
(* Requests.  One pass runs to completion before its result is returned;   *)
(* the services keep nothing between passes.                                *)
(***************************************************************************)
\* the selections a user makes around one element: the element, the element from
\* the start of its line, its open tag alone, its content alone, the element less
\* its last or first character, its first four characters, and the element with
\* the character that follows it
ElementSelections(source, e) ==
    {<<e.start, e.end>>,
     <<LineStart(source, PositionAt(source, e.start).line), e.end>>,
     <<e.start, e.content_start>>,
     <<e.content_start, e.content_end>>,
     <<e.start, e.end - 1>>,
     <<e.start + 1, e.end>>,
     <<e.start, e.start + MinElementLength - 1>>,
     <<e.start, IF e.end + 1 < Len(source) THEN e.end + 1 ELSE Len(source)>>}

SelectionRanges(source) ==
    LET doc == XmlDocument(ToolUri, source)
        offsets == UNION {ElementSelections(source, doc.elements[k]) :
                             k \in 1..Len(doc.elements)}
    IN  {Range(PositionAt(source, o[1]), PositionAt(source, o[2])) : o \in offsets}

CodeActionParams(range) == [text_document |-> [uri |-> ToolUri], range |-> range]

NoParams == CodeActionParams(Range(Position(0, 0), Position(0, 0)))
NoNavigation == [kind |-> "none", name |-> <<>>, result |-> None]

Init ==
    /\ \E w \in Workspaces : tool_source = w.source /\ files = w.files
    /\ tool_version \in 1..MaxVersion
    /\ phase = "idle"
    /\ params = NoParams
    /\ fail_at = 0
    /\ response = NoResponse
    /\ macro_definitions = None
    /\ navigation = NoNavigation
    /\ applied = None

\* textDocument/codeAction: RefactoringService.get_available_refactoring_actions
RequestCodeActions(range, fails) ==
    /\ phase = "idle"
    /\ phase' = "refactor"
    /\ params' = CodeActionParams(range)
    /\ fail_at' = fails
    /\ response' = get_available_refactoring_actions(
                       files, XmlDocument(ToolUri, tool_source), params', tool_version,
                       fails)
    /\ macro_definitions' = response'.definitions
    /\ UNCHANGED <<tool_source, tool_version, files, navigation, applied>>

\* the client applies the Edit Set of one returned action
ApplyEditSet(i) ==
    /\ phase = "refactor"
    /\ Applicable(tool_source, files, response.code_actions[i].edit)
    /\ phase' = "applied"
    /\ applied' = Some([action |-> i,
                        documents |-> ApplyWorkspaceEdit(
                            tool_source, files, response.code_actions[i].edit)])
    /\ UNCHANGED <<tool_source, tool_version, files, params, fail_at, response,
                   macro_definitions, navigation>>

\* MacroDefinitionsProvider.load_macro_definitions, for the navigation features
LoadMacroDefinitions ==
    /\ phase = "idle"
    /\ phase' = "definitions"
    /\ macro_definitions' =
           Some(load_macro_definitions(files, XmlDocument(ToolUri, tool_source)))
    /\ UNCHANGED <<tool_source, tool_version, files, params, fail_at, response,
                   navigation, applied>>

\* ToolMacroDefinitions.go_to_import_definition
GoToImportDefinition(file_name) ==
    /\ phase = "definitions"
    /\ phase' = "navigated"
    /\ navigation' = [kind |-> "import", name |-> file_name,
                      result |-> go_to_import_definition(Get(macro_definitions),
                                                         file_name)]
    /\ UNCHANGED <<tool_source, tool_version, files, params, fail_at, response,
                   macro_definitions, applied>>

\* ToolMacroDefinitions.get_token_definition
GetTokenDefinition(token) ==
    /\ phase = "definitions"
    /\ phase' = "navigated"
    /\ navigation' = [kind |-> "token", name |-> token,
                      result |-> get_token_definition(Get(macro_definitions), token)]
    /\ UNCHANGED <<tool_source, tool_version, files, params, fail_at, response,
                   macro_definitions, applied>>

FileC == <<"c">>
TokenZ == <<"Z">>

Next ==
    \/ /\ phase = "idle"
       /\ \E range \in SelectionRanges(tool_source), fails \in 0..MaxFormatCalls :
              RequestCodeActions(range, fails)
    \/ \E i \in 1..Len(response.code_actions) : ApplyEditSet(i)
    \/ LoadMacroDefinitions
    \/ \E file_name \in FileNames \cup {FileC} : GoToImportDefinition(file_name)
    \/ \E token \in {TokenX, TokenY, TokenZ} : GetTokenDefinition(token)

Spec == Init /\ [][Next]_vars

(***************************************************************************)
(* Properties.  What they say about a document is read off the document    *)
(* again, not taken from the outcome under test.                            *)
(***************************************************************************)
ToolDoc == XmlDocument(ToolUri, tool_source)

\* the file references of the import declarations, in document order
ImportReferences ==
    LET imports == find_all_elements_with_name(ToolDoc, IMPORT)
    IN  [k \in 1..Len(imports) |-> get_content(ToolDoc, imports[k])]

NamesAFile(reference) == reference # <<>>

\* the references that name a file, in document order, repeats included
NamedImports == SelectSeq(ImportReferences, NamesAFile)

\* the same, each file name once, where it first appears
RECURSIVE FirstOccurrences(_)
FirstOccurrences(names) ==
    IF names = <<>> THEN <<>>
    ELSE LET rest == FirstOccurrences(Front(names))
             last == names[Len(names)]
         IN  IF \E k \in 1..Len(rest) : rest[k] = last THEN rest
             ELSE Append(rest, last)

DistinctImports == FirstOccurrences(NamedImports)

FileExists(name) == name \in DOMAIN files /\ files[name] # None

NotSigil(c) == c # AT

\* where the text of a document declares token name (its last declaration), as
\* a set of at most one location
DeclarationsIn(uri, text, name) ==
    LET doc == XmlDocument(uri, text)
        tokens == find_all_elements_with_name(doc, TOKEN)
        declaring == {k \in 1..Len(tokens) :
                         SelectSeq(Get(get_attribute(doc, tokens[k], NAME)), NotSigil)
                             = name}
    IN  IF declaring = {} THEN {}
        ELSE {Location(uri, get_element_name_range(doc, tokens[Greatest(declaring)]))}

ImportDeclares(file_name, name) ==
    /\ FileExists(file_name)
    /\ DeclarationsIn(as_uri(file_name), Get(files[file_name]), name) # {}

TokenNames == {TokenX, TokenY, TokenZ}

Resolved == macro_definitions # None
Table == Get(macro_definitions).tokens

\* the location the aggregated table gives for a name, as a set of at most one
TableLocations(name) ==
    IF DictHas(Table, name) THEN {Get(DictGet(Table, name)).location} ELSE {}

\* C2 (as stated): for every token name declared by at least one import, the
\* aggregated table gives the declaration in the last import declaration, in
\* document order, whose file declares it.
C2_LastImportInDocumentOrderWins ==
    Resolved =>
        \A name \in TokenNames :
            LET declaring == {k \in 1..Len(NamedImports) :
                                 ImportDeclares(NamedImports[k], name)}
                file_name == NamedImports[Greatest(declaring)]
            IN  declaring # {} =>
                    TableLocations(name)
                        = DeclarationsIn(as_uri(file_name), Get(files[file_name]), name)

\* C2 (amended): the imports overwrite the tool's own tokens in the order in which
\* each distinct file name first appears in the document: a name declared by an
\* import is located in the last such file that declares it, a name declared by
\* the tool document alone in the tool document, and no other name is in the table.
C2_LastDistinctImportWins ==
    Resolved =>
        \A name \in TokenNames :
            LET declaring == {k \in 1..Len(DistinctImports) :
                                 ImportDeclares(DistinctImports[k], name)}
                file_name == DistinctImports[Greatest(declaring)]
            IN  TableLocations(name)
                    = IF declaring # {}
                      THEN DeclarationsIn(as_uri(file_name), Get(files[file_name]), name)
                      ELSE DeclarationsIn(ToolUri, tool_source, name)

\* C2 witness: the tool document and two different imports declare X, and the
\* table locates X in the second import.
C2_Witness ==
    /\ Resolved
    /\ Len(DistinctImports) = 2
    /\ DeclarationsIn(ToolUri, tool_source, TokenX) # {}
    /\ ImportDeclares(DistinctImports[1], TokenX)
    /\ ImportDeclares(DistinctImports[2], TokenX)
    /\ \E location \in TableLocations(TokenX) :
           location.uri = as_uri(DistinctImports[2])

ImportedEntry(name) == Get(DictGet(Get(macro_definitions).imported_macros, name))

\* C9: an import whose file is missing does not fail the resolution: its entry
\* has no URI, no document and no tokens, the imports whose files exist are still
\* resolved, no token of the table is located in the missing file, and
\* go_to_import_definition yields no location for it.
C9_MissingImportIsNotFatal ==
    Resolved =>
        \A k \in 1..Len(NamedImports) :
            LET name == NamedImports[k]
            IN  /\ DictHas(Get(macro_definitions).imported_macros, name)
                /\ FileExists(name) =>
                       /\ ImportedEntry(name).file_uri = Some(as_uri(name))
                       /\ ImportedEntry(name).document # None
                /\ ~FileExists(name) =>
                       /\ ImportedEntry(name).file_uri = None
                       /\ ImportedEntry(name).document = None
                       /\ ImportedEntry(name).tokens = <<>>
                       /\ \A token \in 1..Len(Table) :
                              Table[token].value.location.uri # as_uri(name)
                       /\ (phase = "navigated" /\ navigation.kind = "import"
                               /\ navigation.name = name)
                              => navigation.result = None

\* C9 witness: the location of a missing import was asked for, while another
\* import of the same tool document resolved.
C9_Witness ==
    /\ phase = "navigated"
    /\ navigation.kind = "import"
    /\ \E k \in 1..Len(NamedImports) :
           navigation.name = NamedImports[k] /\ ~FileExists(NamedImports[k])
    /\ \E k \in 1..Len(NamedImports) :
           /\ FileExists(NamedImports[k])
           /\ ImportedEntry(NamedImports[k]).document # None
    /\ navigation.result = None

\* a code action request has been answered
Answered == phase \in {"refactor", "applied"}

SelectedText == get_text_in_range(ToolDoc, params.range)
Trimmed == strip(SelectedText)
Fragment == ParseFrom(Trimmed, 1, <<>>, <<>>)

\* the selection is one whole element that may be wrapped in a macro
Extractable ==
    /\ Len(Trimmed) >= 5
    /\ Trimmed[1] = LT
    /\ Trimmed[Len(Trimmed)] = GT
    /\ Fragment.ok
    /\ Fragment.elements[1].name # TOOL
    /\ Fragment.elements[1].name # MACROS
    /\ Fragment.elements[1].name # MACRO
    /\ Fragment.elements[1].name # XML

IsExternal(action) == action.title.text \in {ExtractToFileTitle, ExtractNewFileTitle}
IsLocal(action) == action.title.text = ExtractLocalTitle
IsNewFile(action) == action.title.text = ExtractNewFileTitle

ExternalActions == SelectSeq(response.code_actions, IsExternal)

IsInsertion(edit) == edit.range.start = edit.range.end

\* the replacement of the selection by the reference: from column 0 of its line
ReferenceRange == Range(Position(params.range.start.line, 0), params.range.end)

\* C7: a selection that is too short, is not delimited by < and >, does not parse
\* or has a reserved root tag gets an empty list, with no error, no resolution
\* pass and no call of the formatter; any other selection gives the macro its
\* root tag as name and its trimmed text as content.
C7_RejectedSelections ==
    Answered =>
        IF Extractable
        THEN response.macro = Some([name |-> Fragment.elements[1].name,
                                    content |-> Trimmed])
        ELSE /\ response.raised = NoError
             /\ response.code_actions = <<>>
             /\ response.macro = None
             /\ response.definitions = None
             /\ response.format_calls = 0

\* C7 witness: a whole macros container was selected and no action came back.
C7_Witness ==
    /\ Answered
    /\ Fragment.ok
    /\ Fragment.elements[1].name = MACROS
    /\ response.code_actions = <<>>

ExpectedSectionPosition ==
    IF find_element(ToolDoc, XREF) # NoElement
    THEN PositionAt(tool_source, ToolDoc.elements[find_element(ToolDoc, XREF)].end)
    ELSE IF find_element(ToolDoc, DESCRIPTION) # NoElement
    THEN PositionAt(tool_source,
                    ToolDoc.elements[find_element(ToolDoc, DESCRIPTION)].end)
    ELSE PositionAt(tool_source, ToolDoc.elements[1].content_start)

\* where Strategy C declares the import
ExpectedImportPosition ==
    LET macros == find_element(ToolDoc, MACROS)
        children == Children(ToolDoc, macros)
    IN  IF macros = NoElement THEN ExpectedSectionPosition
        ELSE IF children = <<>>
        THEN PositionAt(tool_source, ToolDoc.elements[macros].content_start)
        ELSE PositionAt(tool_source, ToolDoc.elements[children[1]].start)

\* C10: a create-and-import action comes only with no imported macros, alone
\* among the external actions, and its Edit Set is, in this order: the creation
\* of macros.xml beside the tool, one insertion at (0, 0) into it tagged version 0,
\* and one modification of the tool document tagged with its workspace version,
\* holding the import declaration (before the first child of the macros
\* container, or a new container at the Strategy A insertion point) and then
\* the replacement of the selection.
C10_CreateAndImport ==
    Answered =>
        \A k \in 1..Len(response.code_actions) :
            IsNewFile(response.code_actions[k]) =>
                LET ops == response.code_actions[k].edit.document_changes
                IN  /\ Get(response.definitions).imported_macros = <<>>
                    /\ Len(ExternalActions) = 1
                    /\ k = 1
                    /\ response.code_actions[k].edit.changes = <<>>
                    /\ Len(ops) = 3
                    /\ ops[1] = [kind |-> "create",
                                 uri |-> as_uri(DEFAULT_MACROS_FILENAME)]
                    /\ ops[2].kind = "edit"
                    /\ ops[2].text_document
                           = [uri |-> as_uri(DEFAULT_MACROS_FILENAME), version |-> 0]
                    /\ Len(ops[2].edits) = 1
                    /\ ops[2].edits[1].range = Range(Position(0, 0), Position(0, 0))
                    /\ ops[3].kind = "edit"
                    /\ ops[3].text_document
                           = [uri |-> ToolUri, version |-> tool_version]
                    /\ Len(ops[3].edits) = 2
                    /\ ops[3].edits[1].range
                           = Range(ExpectedImportPosition, ExpectedImportPosition)
                    /\ FindText(ops[3].edits[1].new_text,
                                ImportXml(DEFAULT_MACROS_FILENAME), 1) # 0
                    /\ (FindText(ops[3].edits[1].new_text, OpenEl(MACROS), 1) # 0)
                           = (find_element(ToolDoc, MACROS) = NoElement)
                    /\ ops[3].edits[2].range = ReferenceRange

\* C10 witness: a create-and-import action for a tool document that has a macros
\* container with a child, at a workspace version other than the first.
C10_Witness ==
    /\ Answered
    /\ tool_version > 1
    /\ find_element(ToolDoc, MACROS) # NoElement
    /\ Children(ToolDoc, find_element(ToolDoc, MACROS)) # <<>>
    /\ response.code_actions # <<>>
    /\ IsNewFile(response.code_actions[1])

\* an insertion point lies strictly outside a replacement range
InsertionOutside(text, insertion, replacement) ==
    \/ OffsetAt(text, insertion.range.start) < OffsetAt(text, replacement.range.start)
    \/ OffsetAt(text, insertion.range.start) > OffsetAt(text, replacement.range.end)

\* C3: within one Edit Set, the insertion of the macro (or of the import) into a
\* document never lies inside the replacement range of the selection in the same
\* document, nor on its boundary.
C3_EditsNeverOverlap ==
    Answered =>
        \A k \in 1..Len(response.code_actions) :
            LET targets == EditedDocuments(response.code_actions[k].edit)
            IN  \A d \in 1..Len(targets) :
                    \A i, j \in 1..Len(targets[d].edits) :
                        (/\ IsInsertion(targets[d].edits[i])
                         /\ ~IsInsertion(targets[d].edits[j]))
                            => InsertionOutside(
                                   OriginalText(tool_source, files, targets[d]),
                                   targets[d].edits[i], targets[d].edits[j])

\* C4: an import of a file that does not exist gets no action and raises nothing:
\* the call returns the actions for the imported files that do exist.
C4_MissingImportIsSkipped ==
    (Answered /\ response.macro # None /\ fail_at = 0 /\ DistinctImports # <<>>) =>
        /\ response.raised = NoError
        /\ LET existing == SelectSeq(DistinctImports, FileExists)
           IN  /\ Len(ExternalActions) = Len(existing)
               /\ \A k \in 1..Len(existing) :
                      ExternalActions[k].title.file_name = existing[k]

CountElements(text, Test(_)) ==
    Len(SelectSeq(XmlDocument(ToolUri, text).elements, Test))

RECURSIVE SumOver(_, _, _)
SumOver(documents, Count(_), k) ==
    IF k > Len(documents) THEN 0
    ELSE Count(documents[k]) + SumOver(documents, Count, k + 1)

DefinesMacro(element) ==
    /\ element.name = XML
    /\ Attribute(element.tag, NAME) = Some(Get(response.macro).name)

ExpandsMacro(element) ==
    /\ element.name = EXPAND
    /\ Attribute(element.tag, MACRO) = Some(Get(response.macro).name)

\* C5: after an Edit Set is applied, every document it touched is well formed,
\* there is exactly one new definition of the macro and one new reference to it
\* in the tool document, and the replacement took nothing from the tool document
\* but the selection and the indentation before it.
C5_RoundTrip ==
    phase = "applied" =>
        LET documents == Get(applied).documents
            tool == SelectSeq(documents, LAMBDA d : d.uri = ToolUri)
            from == LineStart(tool_source, params.range.start.line)
            to == OffsetAt(tool_source, params.range.start)
        IN  /\ \A k \in 1..Len(documents) :
                   XmlDocument(documents[k].uri, documents[k].after).root # NoElement
            /\ SumOver(documents, LAMBDA d : CountElements(d.after, DefinesMacro), 1)
                   = SumOver(documents,
                             LAMBDA d : CountElements(d.before, DefinesMacro), 1) + 1
            /\ Len(tool) = 1
            /\ CountElements(tool[1].after, ExpandsMacro)
                   = CountElements(tool[1].before, ExpandsMacro) + 1
            /\ \A c \in (from + 1)..to : tool_source[c] \in Whitespace

\* C6: for a valid selection the external actions come first and exactly one
\* local action comes last, whose Edit Set holds two edits on the tool document:
\* the insertion of the macro and the replacement of the selection.
C6_LocalActionLast ==
    (Answered /\ response.macro # None /\ fail_at = 0) =>
        LET actions == response.code_actions
            last == actions[Len(actions)]
        IN  /\ response.raised = NoError
            /\ Len(actions) >= 2
            /\ \A k \in 1..(Len(actions) - 1) : IsExternal(actions[k])
            /\ IsLocal(last)
            /\ last.edit.document_changes = <<>>
            /\ DictKeys(last.edit.changes) = <<ToolUri>>
            /\ Len(last.edit.changes[1].value) = 2
            /\ IsInsertion(last.edit.changes[1].value[1])
            /\ last.edit.changes[1].value[2].range = ReferenceRange

\* the calls of the formatter a request makes when none fails
FormatCallsOfRequest ==
    IF DistinctImports = <<>> THEN 3 ELSE Len(DistinctImports) + 1

\* C8: a failure of the formatter fails only the Edit Set being computed: the
\* request still returns the other actions, the local one among them unless it
\* was the one that failed.
C8_FormatterFailureIsLocal ==
    (/\ Answered
     /\ response.macro # None
     /\ \A k \in 1..Len(DistinctImports) : FileExists(DistinctImports[k])
     /\ fail_at >= 1
     /\ fail_at <= FormatCallsOfRequest) =>
        /\ response.raised = NoError
        /\ response.code_actions # <<>>
        /\ fail_at < FormatCallsOfRequest
               => IsLocal(response.code_actions[Len(response.code_actions)])

====
